---- MODULE Spec2Model ----
(***************************************************************************)
(* Model of the numeric pipeline of lirycs_midi_to_MusicXML.py:            *)
(*   parse_midi                  (MIDI messages -> notes, then quantized)  *)
(*   normalize_durations         (duration quantizer, in place)            *)
(*   sync_text_to_midi_advanced  (words laid out evenly over the notes)    *)
(*                                                                         *)
(* Time is counted in integer units of 1/2560 beat, so that 1/64 beat is   *)
(* MinStep = 40 units, 1/256 beat is 10 units, the midpoint of any two     *)
(* neighbouring canonical durations is a whole number of units, and        *)
(* ticks / ticks_per_beat is exact for the time bases used here.           *)
(* The quotient total_midi_duration / len(words) is kept as a reduced      *)
(* fraction of units.                                                      *)
(***************************************************************************)
EXTENDS Integers, Sequences, FiniteSets

VARIABLES
    ticks_per_beat,       \* midi.ticks_per_beat
    msg,                  \* the message the loop of parse_midi read last
    read,                 \* how many messages parse_midi has read
    track,                \* which track of midi.tracks the outer loop is in
    current_time,         \* parse_midi's running time
    tempo,                \* parse_midi's tempo
    error,                \* the exception that ended the call, or "none"
    notes,                \* the note list (one list object: built, then quantized in place)
    notes_in,             \* history: the content of notes when normalize_durations was called
    normalized_notes,     \* what normalize_durations returned
    words,                \* text.split()
    total_midi_duration,
    word_interval,
    synced,
    note_index,
    i,                    \* index (0-based) of the next word of the word loop
    pc

vars == <<ticks_per_beat, msg, read, track, current_time, tempo, error, notes,
          notes_in, normalized_notes, words, total_midi_duration, word_interval,
          synced, note_index, i, pc>>

extractVars == <<ticks_per_beat, msg, read, track, current_time, tempo, error>>
syncVars == <<words, total_midi_duration, word_interval, synced, note_index, i>>

(***************************************************************************)
(* Bounds of the model.                                                    *)
(***************************************************************************)
MaxMsgs == 4
MaxTracks == 2
MaxDuration == 2600
MaxQuantizeNotes == 2
MaxSyncNotes == 2
MaxWords == 3

(***************************************************************************)
(* Constants of the program.                                               *)
(***************************************************************************)
MinStep == 40
Beat == 64 * MinStep
MinXml == Beat \div 256
DefaultTempo == 120

valid_durations ==
    <<Beat, Beat \div 2, Beat \div 4, Beat \div 8, Beat \div 16, Beat \div 32,
      Beat \div 64, Beat \div 128, Beat \div 256>>

(***************************************************************************)
(* Input domains.                                                          *)
(***************************************************************************)
Pitches == {60, 64}
TicksPerBeatValues == {-10, 0, 10}
DeltaTicks == {0, 10}
Velocities == {0, 64}
TempoValues == {1000000}
WordTokens == {"la", "li"}

Messages ==
       [type : {"note_on"}, note : Pitches, velocity : Velocities, time : DeltaTicks,
        tempo : {0}]
  \cup [type : {"note_off"}, note : Pitches, velocity : {0}, time : DeltaTicks,
        tempo : {0}]
  \cup [type : {"set_tempo"}, note : {0}, velocity : {0}, time : {0},
        tempo : TempoValues]

(***************************************************************************)
(* Arithmetic helpers.                                                     *)
(***************************************************************************)
Max2(a, b) == IF a >= b THEN a ELSE b

Abs(x) == IF x >= 0 THEN x ELSE -x

RECURSIVE Gcd(_, _)
Gcd(a, b) == IF b = 0 THEN a ELSE Gcd(b, a % b)

\* The quotient n / d (n >= 0, d > 0) as a reduced fraction.
Frac(n, d) ==
    LET g == Gcd(n, d)
    IN  [num |-> n \div g, den |-> d \div g]

FracLess(a, b) == a.num * b.den < b.num * a.den

\* msg.time / ticks_per_beat, in units (ticks_per_beat # 0).
DeltaBeats(ticks, tpb) ==
    IF tpb > 0 THEN (ticks * Beat) \div tpb ELSE -((ticks * Beat) \div (-tpb))

(***************************************************************************)
(* parse_midi                                                              *)
(***************************************************************************)
IsTimed(m) == m.type \in {"note_on", "note_off"}

IsOn(m) == m.type = "note_on" /\ m.velocity > 0

IsOff(m) == m.type = "note_off" \/ (m.type = "note_on" /\ m.velocity = 0)

\* mido.tempo2bpm
tempo2bpm(t) == 60000000 \div t

DeltaTimeNoFloor(ticks, tpb) == DeltaBeats(ticks, tpb)

\* delta_time = max(msg.time / ticks_per_beat, min_duration)
DeltaTime(ticks, tpb) == Max2(DeltaBeats(ticks, tpb), MinStep)

\* for note in reversed(notes): the scan, from position k down to 1.
RECURSIVE ScanReversed(_, _, _, _)
ScanReversed(ns, k, pitch, t) ==
    IF k = 0 THEN ns
    ELSE IF ns[k].pitch = pitch /\ ns[k].duration = 0
         THEN [ns EXCEPT ![k].duration = Max2(t - ns[k].start, MinStep)]
         ELSE ScanReversed(ns, k - 1, pitch, t)

\* The same scan in list order: the first-opened open note is closed.
RECURSIVE ScanForward(_, _, _, _)
ScanForward(ns, k, pitch, t) ==
    IF k > Len(ns) THEN ns
    ELSE IF ns[k].pitch = pitch /\ ns[k].duration = 0
         THEN [ns EXCEPT ![k].duration = Max2(t - ns[k].start, MinStep)]
         ELSE ScanForward(ns, k + 1, pitch, t)

CloseNoteFifo(ns, pitch, t) == ScanForward(ns, 1, pitch, t)

CloseNote(ns, pitch, t) == ScanReversed(ns, Len(ns), pitch, t)

\* The effect of one note message on the note list, at time t.
ApplyNoteMsg(ns, m, t) ==
    IF IsOn(m)
    THEN Append(ns, [pitch |-> m.note, start |-> t, duration |-> 0])
    ELSE IF IsOff(m) THEN CloseNote(ns, m.note, t)
    ELSE ns

\* A message of the file, with the track it was read from.
InTrack(m, tr) ==
    [type |-> m.type, note |-> m.note, velocity |-> m.velocity,
     time |-> m.time, tempo |-> m.tempo, track |-> tr]

NoMsg == [type |-> "none", note |-> 0, velocity |-> 0, time |-> 0, tempo |-> 0,
          track |-> 0]

\* One iteration of "for msg in track" on a set_tempo message.
ReadSetTempo ==
    /\ pc = "loop"
    /\ read < MaxMsgs
    /\ \E m \in Messages :
        /\ m.type = "set_tempo"
        /\ msg' = InTrack(m, track)
        /\ tempo' = tempo2bpm(m.tempo)
    /\ read' = read + 1
    /\ UNCHANGED <<ticks_per_beat, track, current_time, error, notes, notes_in,
                   normalized_notes, pc>>
    /\ UNCHANGED syncVars

\* One iteration of "for msg in track" on a note_on or note_off message. With
\* ticks_per_beat = 0 the division raises ZeroDivisionError, which leaves parse_midi.
ReadNoteMsg ==
    /\ pc = "loop"
    /\ read < MaxMsgs
    /\ \E m \in Messages :
        /\ IsTimed(m)
        /\ msg' = InTrack(m, track)
        /\ IF ticks_per_beat = 0
           THEN /\ error' = "ZeroDivisionError"
                /\ pc' = "error"
                /\ UNCHANGED <<current_time, notes>>
           ELSE LET t == current_time + DeltaTime(m.time, ticks_per_beat)
                IN  /\ current_time' = t
                    /\ notes' = ApplyNoteMsg(notes, m, t)
                    /\ UNCHANGED <<error, pc>>
    /\ read' = read + 1
    /\ UNCHANGED <<ticks_per_beat, track, tempo, notes_in, normalized_notes>>
    /\ UNCHANGED syncVars

\* "for track in midi.tracks" moves to the next track; current_time is kept.
NextTrack ==
    /\ pc = "loop"
    /\ track < MaxTracks
    /\ track' = track + 1
    /\ UNCHANGED <<ticks_per_beat, msg, read, current_time, tempo, error, notes,
                   notes_in, normalized_notes, pc>>
    /\ UNCHANGED syncVars

(***************************************************************************)
(* normalize_durations                                                     *)
(***************************************************************************)
\* min(seq, key=lambda x: abs(x - dur)) from position k on, best so far given:
\* a later value replaces the best one only when it is strictly nearer.
RECURSIVE MinByKey(_, _, _, _)
MinByKey(seq, k, best, dur) ==
    IF k > Len(seq) THEN best
    ELSE MinByKey(seq, k + 1,
                  IF Abs(seq[k] - dur) < Abs(best - dur) THEN seq[k] ELSE best, dur)

\* As MinByKey, a later value replacing the best one also when equally near.
RECURSIVE MinByKeyLast(_, _, _, _)
MinByKeyLast(seq, k, best, dur) ==
    IF k > Len(seq) THEN best
    ELSE MinByKeyLast(seq, k + 1,
                      IF Abs(seq[k] - dur) <= Abs(best - dur) THEN seq[k] ELSE best, dur)

NearestValidLast(dur) == MinByKeyLast(valid_durations, 2, valid_durations[1], dur)

\* The nearest value to the duration taken as a quarterLength (4 per whole note).
NearestValidQuarter(dur) == MinByKey(valid_durations, 2, valid_durations[1], 4 * dur)

\* min(valid_durations, key=lambda x: abs(x - dur))
NearestValid(dur) == MinByKey(valid_durations, 2, valid_durations[1], dur)

\* The body of the loop of normalize_durations, on one duration.
Quantize(dur) ==
    LET v == NearestValid(dur)
    IN  IF v < MinXml THEN MinXml ELSE v

NormalizeDurations(ns) ==
    [k \in 1..Len(ns) |-> [ns[k] EXCEPT !.duration = Quantize(ns[k].duration)]]

\* A quantizer that builds a new list and leaves its argument alone.
NormalizeCopy ==
    /\ notes_in' = notes
    /\ normalized_notes' = NormalizeDurations(notes)
    /\ notes' = notes

\* The call normalize_durations(notes): the notes of the list are overwritten and
\* the list itself is returned.
NormalizeInPlace ==
    /\ notes_in' = notes
    /\ notes' = NormalizeDurations(notes)
    /\ normalized_notes' = notes'

\* The end of parse_midi: normalized_notes = normalize_durations(notes); return.
ParseReturn ==
    /\ pc = "loop"
    /\ NormalizeInPlace
    /\ pc' = "done"
    /\ UNCHANGED extractVars
    /\ UNCHANGED syncVars

\* A call of normalize_durations on a note list of the caller's.
CallNormalize ==
    /\ pc = "call_normalize"
    /\ NormalizeInPlace
    /\ pc' = "done"
    /\ UNCHANGED extractVars
    /\ UNCHANGED syncVars

(***************************************************************************)
(* Specification of parse_midi: the file's time base is drawn at the       *)
(* start, its messages as they are read.                                   *)
(***************************************************************************)
NoFrac == [num |-> 0, den |-> 1]

SyncIdle ==
    /\ words = <<>>
    /\ total_midi_duration = 0
    /\ word_interval = NoFrac
    /\ synced = <<>>
    /\ note_index = 0
    /\ i = 0

ExtractIdle ==
    /\ msg = NoMsg
    /\ read = 0
    /\ track = 1
    /\ current_time = 0
    /\ tempo = DefaultTempo
    /\ error = "none"

Init ==
    /\ ticks_per_beat \in TicksPerBeatValues
    /\ ExtractIdle
    /\ notes = <<>>
    /\ notes_in = <<>>
    /\ normalized_notes = <<>>
    /\ SyncIdle
    /\ pc = "loop"

Next == ReadSetTempo \/ ReadNoteMsg \/ NextTrack \/ ParseReturn

Spec == Init /\ [][Next]_vars

(***************************************************************************)
(* Specification of normalize_durations alone: a caller's note list, with  *)
(* any duration from 0 to MaxDuration units in its first note.             *)
(***************************************************************************)
SeqsUpTo(S, n) == UNION {[1..k -> S] : k \in 0..n}

SampleDurations == {0, Beat \div 2 + Beat \div 4, Beat}

QuantizeInputs ==
    {<<>>} \cup
    {<<n>> \o rest :
        n \in [pitch : Pitches, start : {0}, duration : 0..MaxDuration],
        rest \in SeqsUpTo([pitch : {64}, start : {Beat}, duration : SampleDurations],
                          MaxQuantizeNotes - 1)}

InitQuantize ==
    /\ ticks_per_beat = 10
    /\ ExtractIdle
    /\ notes \in QuantizeInputs
    /\ notes_in = <<>>
    /\ normalized_notes = <<>>
    /\ SyncIdle
    /\ pc = "call_normalize"

NextQuantize == CallNormalize

SpecQuantize == InitQuantize /\ [][NextQuantize]_vars

(***************************************************************************)
(* sync_text_to_midi_advanced                                              *)
(***************************************************************************)
NoteEnd(n) == n.start + n.duration

\* max(note['start'] + note['duration'] for note in notes), from position k on.
RECURSIVE MaxEnd(_, _, _)
MaxEnd(ns, k, best) ==
    IF k > Len(ns) THEN best
    ELSE MaxEnd(ns, k + 1, Max2(best, NoteEnd(ns[k])))

TotalMidiDuration(ns) == MaxEnd(ns, 2, NoteEnd(ns[1]))

\* word_start = i * word_interval
WordStart(k, interval) == Frac(k * interval.num, interval.den)

\* The note under the cursor (0-based) ends at or before the word's start.
NoteEndedOrEnding(ns, idx, ws) == ~FracLess(ws, [num |-> NoteEnd(ns[idx + 1]), den |-> 1])

\* notes[note_index]['start'] + notes[note_index]['duration'] < word_start
NoteEnded(ns, idx, ws) == FracLess([num |-> NoteEnd(ns[idx + 1]), den |-> 1], ws)

\* The condition of the while loop, for the word at position i.
WhileCond ==
    /\ note_index < Len(notes) - 1
    /\ NoteEnded(notes, note_index, WordStart(i, word_interval))

\* A word loop that leaves the last word out.
MoreWordsButLast == i < Len(words) - 1

\* for i, word in enumerate(words): there is a word left.
MoreWords == i < Len(words)

\* The entry appended for the word at position i.
Entry ==
    [pitch |-> notes[note_index + 1].pitch,
     start |-> WordStart(i, word_interval),
     duration |-> notes[note_index + 1].duration,
     word |-> words[i + 1]]

\* The call, up to the word loop: the empty-input return, or the set-up.
SyncStart ==
    /\ pc = "call_sync"
    /\ IF words = <<>> \/ notes = <<>>
       THEN /\ synced' = <<>>
            /\ pc' = "done"
            /\ UNCHANGED <<total_midi_duration, word_interval, note_index, i>>
       ELSE /\ total_midi_duration' = TotalMidiDuration(notes)
            /\ word_interval' = Frac(total_midi_duration', Len(words))
            /\ synced' = <<>>
            /\ note_index' = 0
            /\ i' = 0
            /\ pc' = "sync_loop"
    /\ UNCHANGED <<words, notes, notes_in, normalized_notes>>
    /\ UNCHANGED extractVars

\* One iteration of the while loop: note_index += 1.
SyncAdvance ==
    /\ pc = "sync_loop"
    /\ MoreWords
    /\ WhileCond
    /\ note_index' = note_index + 1
    /\ UNCHANGED <<words, total_midi_duration, word_interval, synced, i, pc>>
    /\ UNCHANGED <<notes, notes_in, normalized_notes>>
    /\ UNCHANGED extractVars

\* An emit that takes the start of the note under the cursor as the entry's start.
SyncEmitNoteStart ==
    /\ pc = "sync_loop"
    /\ MoreWords
    /\ ~WhileCond
    /\ synced' = Append(synced, [Entry EXCEPT !.start =
                                    [num |-> notes[note_index + 1].start, den |-> 1]])
    /\ i' = i + 1
    /\ UNCHANGED <<words, total_midi_duration, word_interval, note_index, pc>>
    /\ UNCHANGED <<notes, notes_in, normalized_notes>>
    /\ UNCHANGED extractVars

\* An emit after which the search for the next word's note starts again at 0.
SyncEmitResetCursor ==
    /\ pc = "sync_loop"
    /\ MoreWords
    /\ ~WhileCond
    /\ synced' = Append(synced, Entry)
    /\ i' = i + 1
    /\ note_index' = 0
    /\ UNCHANGED <<words, total_midi_duration, word_interval, pc>>
    /\ UNCHANGED <<notes, notes_in, normalized_notes>>
    /\ UNCHANGED extractVars

\* The rest of the loop body once the while loop has ended: synced.append(...).
SyncEmit ==
    /\ pc = "sync_loop"
    /\ MoreWords
    /\ ~WhileCond
    /\ synced' = Append(synced, Entry)
    /\ i' = i + 1
    /\ UNCHANGED <<words, total_midi_duration, word_interval, note_index, pc>>
    /\ UNCHANGED <<notes, notes_in, normalized_notes>>
    /\ UNCHANGED extractVars

\* return synced
SyncReturn ==
    /\ pc = "sync_loop"
    /\ ~MoreWords
    /\ pc' = "done"
    /\ UNCHANGED syncVars
    /\ UNCHANGED <<notes, notes_in, normalized_notes>>
    /\ UNCHANGED extractVars

(***************************************************************************)
(* Specification of sync_text_to_midi_advanced alone: quantized notes in   *)
(* the order of their starts, and the words of the text.                   *)
(***************************************************************************)
SyncStarts == {0, Beat, 2 * Beat}

SyncDurations == {Beat \div 2, Beat}

Ascending(ns) == \A k \in 1..(Len(ns) - 1) : ns[k].start < ns[k + 1].start

SyncNoteLists ==
    {ns \in SeqsUpTo([pitch : Pitches, start : SyncStarts, duration : SyncDurations],
                     MaxSyncNotes) : Ascending(ns)}

InitSync ==
    /\ ticks_per_beat = 10
    /\ ExtractIdle
    /\ notes \in SyncNoteLists
    /\ notes_in = <<>>
    /\ normalized_notes = <<>>
    /\ words \in SeqsUpTo(WordTokens, MaxWords)
    /\ total_midi_duration = 0
    /\ word_interval = NoFrac
    /\ synced = <<>>
    /\ note_index = 0
    /\ i = 0
    /\ pc = "call_sync"

NextSync == SyncStart \/ SyncAdvance \/ SyncEmit \/ SyncReturn

SpecSync == InitSync /\ [][NextSync]_vars

(***************************************************************************)
(* The properties checked.                                                 *)
(***************************************************************************)
ScenarioNotes ==
    <<[pitch |-> 60, start |-> 0, duration |-> Beat],
      [pitch |-> 64, start |-> Beat, duration |-> Beat]>>

ScenarioWords == <<"la", "la">>

ScenarioDone == pc = "done" /\ notes = ScenarioNotes /\ words = ScenarioWords

ScenarioEntry(p, st) ==
    [pitch |-> p, start |-> [num |-> st, den |-> 1], duration |-> Beat, word |-> "la"]

\* C1, as stated: on notes (60, 0, 1), (64, 1, 1) and words "la", "la", sync computes
\* total_duration 2 and word_interval 1 and returns the entries (la, 60, 0, 1) and
\* (la, 64, 1, 1): the second word takes the pitch of the second note.
C1_SecondWordTakesSecondNote ==
    ScenarioDone =>
        /\ total_midi_duration = 2 * Beat
        /\ word_interval = [num |-> Beat, den |-> 1]
        /\ synced = <<ScenarioEntry(60, 0), ScenarioEntry(64, Beat)>>

\* C1, amended: on the same input sync computes total_duration 2 and word_interval 1
\* and returns (la, 60, 0, 1) and (la, 60, 1, 1): the first note ends exactly at the
\* second word's start, which is not strictly before it, so the cursor stays on the
\* first note and the second word takes pitch 60.
C1_SecondWordKeepsFirstNote ==
    ScenarioDone =>
        /\ total_midi_duration = 2 * Beat
        /\ word_interval = [num |-> Beat, den |-> 1]
        /\ synced = <<ScenarioEntry(60, 0), ScenarioEntry(60, Beat)>>

C1_Witness == ScenarioDone /\ Len(synced) = 2 /\ note_index = 0

\* The open notes of pitch p in the list ns.
OpenAt(ns, p) == {k \in 1..Len(ns) : ns[k].pitch = p /\ ns[k].duration = 0}

\* A step that read an off-event closes the open note of that pitch that was
\* appended last, and no other note changes.
LifoStep ==
    (read' = read + 1 /\ IsOff(msg') /\ pc' = "loop") =>
        LET open == OpenAt(notes, msg'.note)
        IN  IF open = {} THEN notes' = notes
            ELSE LET k == CHOOSE x \in open : \A y \in open : y <= x
                 IN  /\ Len(notes') = Len(notes)
                     /\ notes'[k].pitch = notes[k].pitch
                     /\ notes'[k].start = notes[k].start
                     /\ notes'[k].duration > 0
                     /\ notes'[k].duration = Max2(current_time' - notes[k].start, MinStep)
                     /\ \A j \in 1..Len(notes) : j # k => notes'[j] = notes[j]

\* note_on(60), note_on(60), note_off(60), note_off(60) with delta ticks 0, 0, 10, 0.
LifoMsgs ==
    <<[type |-> "note_on", note |-> 60, velocity |-> 64, time |-> 0],
      [type |-> "note_on", note |-> 60, velocity |-> 64, time |-> 0],
      [type |-> "note_off", note |-> 60, velocity |-> 0, time |-> 10],
      [type |-> "note_off", note |-> 60, velocity |-> 0, time |-> 0]>>

LifoNote(st, dur) == [pitch |-> 60, start |-> st, duration |-> dur]

\* The note list and the time before the first message and after each of the four.
LifoStates ==
    <<[notes |-> <<>>, time |-> 0],
      [notes |-> <<LifoNote(MinStep, 0)>>, time |-> MinStep],
      [notes |-> <<LifoNote(MinStep, 0), LifoNote(2 * MinStep, 0)>>, time |-> 2 * MinStep],
      [notes |-> <<LifoNote(MinStep, 0), LifoNote(2 * MinStep, Beat)>>,
       time |-> Beat + 2 * MinStep],
      [notes |-> <<LifoNote(MinStep, Beat + 2 * MinStep), LifoNote(2 * MinStep, Beat)>>,
       time |-> Beat + 3 * MinStep]>>

LifoAt(k) ==
    /\ ticks_per_beat = 10
    /\ pc = "loop"
    /\ notes = LifoStates[k].notes
    /\ current_time = LifoStates[k].time

LifoReads(k) ==
    /\ read' = read + 1
    /\ msg'.type = LifoMsgs[k].type
    /\ msg'.note = LifoMsgs[k].note
    /\ msg'.velocity = LifoMsgs[k].velocity
    /\ msg'.time = LifoMsgs[k].time

\* Reading the k-th message of the scenario in its k-th state leads to the next one.
LifoScenarioStep ==
    \A k \in 1..4 :
        (LifoAt(k) /\ LifoReads(k)) =>
            /\ notes' = LifoStates[k + 1].notes
            /\ current_time' = LifoStates[k + 1].time

\* After the four messages the two notes have distinct durations, and the note
\* opened first spans the note opened second.
LifoNested ==
    LET ns == LifoStates[5].notes
    IN  /\ ns[1].duration # ns[2].duration
        /\ ns[1].start <= ns[2].start
        /\ ns[2].start + ns[2].duration <= ns[1].start + ns[1].duration

FlooredStep ==
    (read' = read + 1 /\ IsTimed(msg') /\ pc' = "loop") =>
        LET d == current_time' - current_time
        IN  /\ d >= MinStep
            /\ IF ticks_per_beat > 0 /\ msg'.time * Beat >= MinStep * ticks_per_beat
               THEN d * ticks_per_beat = msg'.time * Beat
               ELSE d = MinStep

\* No other step changes current_time: not a set_tempo message, not a change of track.
TimeKept ==
    /\ (read' = read + 1 /\ ~IsTimed(msg')) => current_time' = current_time
    /\ track' # track => current_time' = current_time

\* The starts of the notes, which are timestamps of note_on messages, increase.
StartsIncrease ==
    /\ \A k \in 1..Len(notes) : \A j \in 1..Len(notes) :
           k < j => notes[j].start - notes[k].start >= MinStep
    /\ \A k \in 1..Len(notes) : notes[k].start <= current_time

\* C3: every timed message advances current_time by max(delta_ticks / ticks_per_beat,
\* 1/64), so consecutive timed messages are at least 1/64 beat apart even with
\* delta_ticks 0, and the timestamps increase strictly over the whole message
\* sequence, with no reset at a track boundary.
C3_MinimumStepFloor == [][FlooredStep /\ TimeKept]_vars /\ []StartsIncrease

C3_Witness ==
    /\ ticks_per_beat > 0
    /\ pc = "loop"
    /\ read = 2
    /\ msg.time = 0
    /\ msg.track = 2
    /\ Len(notes) = 2
    /\ notes[2].start = notes[1].start + MinStep

\* C4, as stated: with ticks_per_beat <= 0 extraction fails with MalformedTimeBase:
\* it does not divide by zero, it produces no notes and it returns no note list.
C4_TimeBaseValidated ==
    ticks_per_beat <= 0 =>
        /\ error # "ZeroDivisionError"
        /\ pc = "error" => error = "MalformedTimeBase"
        /\ notes = <<>>
        /\ pc # "done"

IndexOfValid(v) == CHOOSE p \in 1..Len(valid_durations) : valid_durations[p] = v

IsValidDuration(v) == \E p \in 1..Len(valid_durations) : valid_durations[p] = v

\* C5: quantize replaces every duration d by a value v of the canonical list that is
\* at least as near to d as every other value of the list, the first of the list
\* among the values equally near, and never below 1/256.
C5_NearestValue ==
    pc = "done" =>
        /\ Len(normalized_notes) = Len(notes_in)
        /\ \A k \in 1..Len(notes_in) :
            LET d == notes_in[k].duration
                v == normalized_notes[k].duration
            IN  /\ IsValidDuration(v)
                /\ v >= MinXml
                /\ \A q \in 1..Len(valid_durations) :
                    /\ Abs(v - d) <= Abs(valid_durations[q] - d)
                    /\ Abs(v - d) = Abs(valid_durations[q] - d) => IndexOfValid(v) <= q

C5_Witness ==
    /\ pc = "done"
    /\ Len(notes_in) = 2
    /\ notes_in[1].duration = Beat \div 128 + Beat \div 256
    /\ normalized_notes[1].duration = Beat \div 64
    /\ notes_in[2].duration = Beat \div 2 + Beat \div 4
    /\ normalized_notes[2].duration = Beat

SamePitchAndStart ==
    /\ Len(normalized_notes) = Len(notes_in)
    /\ \A k \in 1..Len(notes_in) :
        /\ normalized_notes[k].pitch = notes_in[k].pitch
        /\ normalized_notes[k].start = notes_in[k].start

C7_OneEntryPerWord ==
    (pc = "done" /\ notes # <<>> /\ words # <<>>) =>
        /\ Len(synced) = Len(words)
        /\ \A k \in 1..Len(words) : synced[k].word = words[k]

C7_Witness ==
    /\ pc = "done"
    /\ Len(notes) = 2
    /\ words = <<"la", "li", "la">>
    /\ Len(synced) = 3

\* The latest end of a note of ns.
LatestEnd(ns) ==
    CHOOSE e \in {ns[k].start + ns[k].duration : k \in 1..Len(ns)} :
        \A k \in 1..Len(ns) : ns[k].start + ns[k].duration <= e

\* C8: the starts of the entries of one result increase strictly, given
\* word_interval > 0, and entry k (counted from 0) starts at
\* k * (total_duration / word_count), whatever the start of the note it borrows from.
C8_MonotonicStart ==
    (pc = "done" /\ notes # <<>> /\ words # <<>> /\ LatestEnd(notes) > 0) =>
        /\ \A k \in 1..Len(synced) :
            /\ synced[k].start.den > 0
            /\ synced[k].start.num * Len(words)
                 = (k - 1) * LatestEnd(notes) * synced[k].start.den
        /\ \A j \in 1..Len(synced) : \A k \in 1..Len(synced) :
            j < k => FracLess(synced[j].start, synced[k].start)

C8_Witness ==
    /\ pc = "done"
    /\ Len(synced) = 3
    /\ Len(notes) = 2
    /\ synced[2].start.den = 3
    /\ synced[2].pitch = notes[2].pitch
    /\ synced[2].pitch # notes[1].pitch

\* Over a step of the word loop the cursor does not move back; it moves by one, within
\* one word, and only off a note that is not the last and ends strictly before the
\* word's start; the step to the next word leaves it where it is.
CursorStep ==
    pc = "sync_loop" =>
        /\ note_index' >= note_index
        /\ note_index' # note_index =>
            /\ note_index' = note_index + 1
            /\ i' = i
            /\ note_index < Len(notes) - 1
            /\ (notes[note_index + 1].start + notes[note_index + 1].duration) * Len(words)
                 < i * LatestEnd(notes)
        /\ i' # i => note_index' = note_index

\* C9: within one sync call the cursor note_index never decreases from word to word:
\* it is not reset between words, and it moves past a note only while
\* note_index < note_count - 1 and that note's end is strictly before the word's start.
C9_CursorMonotone == [][CursorStep]_vars

C9_Witness ==
    /\ pc = "sync_loop"
    /\ note_index = 1
    /\ Len(synced) = 2
    /\ synced[1].pitch = notes[1].pitch
    /\ synced[2].pitch = notes[2].pitch
    /\ notes[1].pitch # notes[2].pitch

\* C10: quantizing the result of quantize changes nothing, and a duration that is
\* already a value of the canonical list is left as it is.
C10_Idempotent ==
    pc = "done" =>
        /\ NormalizeDurations(normalized_notes) = normalized_notes
        /\ \A k \in 1..Len(notes_in) :
            IsValidDuration(notes_in[k].duration) =>
                normalized_notes[k].duration = notes_in[k].duration

C10_Witness ==
    /\ pc = "done"
    /\ Len(notes_in) = 2
    /\ notes_in[1].duration = Beat \div 256
    /\ normalized_notes[1].duration = Beat \div 256
    /\ notes_in[2].duration = Beat \div 2 + Beat \div 4
    /\ normalized_notes[2].duration = Beat

====
